---- MODULE Spec2Model ----
(***************************************************************************)
(* A model of af-sui-decorators: the coin selection of get_coin_amount     *)
(* (both definitions: SignedTransactionApi::get_coin_amount in             *)
(* signed_transaction_api/mod.rs and the free function in lib.rs), the     *)
(* sign-and-execute step, and the interpretation of a transaction          *)
(* response (transaction_response_api/*.rs and lib.rs).                    *)
(***************************************************************************)
EXTENDS Integers, Sequences, FiniteSets, TLC

\* ------------------------------------------------------------------ bounds

\* Longest object-change list of a response drawn as input.
MaxChanges == 3

\* Most coins the sender owns when the calls start.
MaxCoins == 2

\* Largest balance of a coin the sender owns when the calls start.
MaxBalance == 3

\* Largest amount a call requests.
MaxAmount == 2

\* ------------------------------------------------------- Option and Result

None == [some |-> FALSE]

Some(x) == [some |-> TRUE, val |-> x]

Ok(x) == [ok |-> TRUE, val |-> x]

Err(e) == [ok |-> FALSE, err |-> e]

\* The unit value of Ok(()).
Unit == "()"

\* ------------------------------------------------- responses (input space)

\* StructTag values: two packages define a type m1::A, so that two distinct
\* types share the key "m1::A".
StructTags ==
    { [address |-> "0xa", module |-> "m1", name |-> "A"],
      [address |-> "0xb", module |-> "m1", name |-> "A"],
      [address |-> "0xa", module |-> "m2", name |-> "B"] }

ObjectIds == {1, 2}

PackageIds == {"P1", "P2"}

Created(id, ty) == [kind |-> "Created", object_id |-> id, object_type |-> ty]

Published(pid) == [kind |-> "Published", package_id |-> pid]

\* Any other variant of ObjectChange (Mutated, Deleted, Wrapped, Transferred).
Mutated == [kind |-> "Mutated"]

ObjectChanges ==
    { Created(id, ty) : id \in ObjectIds, ty \in StructTags }
        \cup { Published(pid) : pid \in PackageIds }
        \cup { Mutated }

ChangeLists == UNION { [1..n -> ObjectChanges] : n \in 0..MaxChanges }

ExecutionStatuses == { [status |-> "Success"], [status |-> "Failure", error |-> "abort"] }

\* SuiTransactionBlockResponse, the fields the code reads.  effects is
\* Option<SuiTransactionBlockEffects>, whose only variant is V1.
Responses ==
    { [effects |-> e, object_changes |-> oc, confirmed_local_execution |-> Some(TRUE)] :
        e \in {None} \cup { Some(s) : s \in ExecutionStatuses },
        oc \in {None} \cup { Some(l) : l \in ChangeLists } }

\* ---------------------------------------------------------- error messages

NoObjectChanges == "No object changes in transaction"

MissingPackageId == "Missing package id in tx response"

NoEffects == "No transaction effects in response"

TransactionFailed == "Transaction failed with status"

\* --------------------------------------------- lib.rs: response functions

get_transaction_effects_v1(response) ==
    IF response.effects.some THEN Ok(response.effects.val) ELSE Err(NoEffects)

ensure_transaction_success(response) ==
    LET effects == get_transaction_effects_v1(response)
    IN  IF ~effects.ok THEN effects
        ELSE IF effects.val.status = "Failure" THEN Err(TransactionFailed)
        ELSE Ok(Unit)

object_changes_from_tx_result(result) ==
    IF result.object_changes.some THEN Ok(result.object_changes.val)
    ELSE Err(NoObjectChanges)

\* -------------------------------------- the key and the HashMap of objects

\* object_type.module.to_string() + "::" + object_type.name.as_str()
ObjectKey(object_type) == object_type.module \o "::" \o object_type.name

CreatedObject(change) ==
    [object_id |-> change.object_id, object_type |-> change.object_type]

EmptyMap == [k \in {} |-> <<>>]

\* A faulty push: the record goes to the front of its key's list.
EntryPushMutant(objects, key, created) ==
    IF key \in DOMAIN objects
    THEN [objects EXCEPT ![key] = <<created>> \o @]
    ELSE (key :> <<created>>) @@ objects

\* objects.entry(key).or_default().push(created)
EntryPush(objects, key, created) ==
    IF key \in DOMAIN objects
    THEN [objects EXCEPT ![key] = Append(@, created)]
    ELSE (key :> <<created>>) @@ objects

\* -------------------------------- published_objects.rs: PublishedObjects

\* One iteration of the for loop over the object changes.
PublishedObjectsStep(acc, change) ==
    IF change.kind = "Created"
    THEN [acc EXCEPT !.objects =
            EntryPush(@, ObjectKey(change.object_type), CreatedObject(change))]
    ELSE IF change.kind = "Published"
    THEN [acc EXCEPT !.package = Some(change.package_id)]
    ELSE acc

RECURSIVE PublishedObjectsLoop(_, _, _)
PublishedObjectsLoop(acc, changes, i) ==
    IF i > Len(changes) THEN acc
    ELSE PublishedObjectsLoop(PublishedObjectsStep(acc, changes[i]), changes, i + 1)

\* A faulty try_from: a missing package id defaults instead of failing.
PublishedObjects_try_from_Mutant(value) ==
    IF ~value.object_changes.some THEN Err(NoObjectChanges)
    ELSE LET acc == PublishedObjectsLoop([package |-> None, objects |-> EmptyMap],
                                         value.object_changes.val, 1)
         IN  Ok([package_id |-> IF acc.package.some THEN acc.package.val ELSE "0x0",
                 objects |-> acc.objects])

PublishedObjects_try_from(value) ==
    IF ~value.object_changes.some THEN Err(NoObjectChanges)
    ELSE LET acc == PublishedObjectsLoop([package |-> None, objects |-> EmptyMap],
                                         value.object_changes.val, 1)
         IN  IF acc.package.some
             THEN Ok([package_id |-> acc.package.val, objects |-> acc.objects])
             ELSE Err(MissingPackageId)

\* ------------------ transaction_response_api/mod.rs and lib.rs: the copies

\* The copies of PublishedObjects::try_from in lib.rs and in
\* transaction_response_api/mod.rs read the list through
\* object_changes_from_tx_result and run the same loop.
PublishedObjects_try_from_lib(value) ==
    LET changes == object_changes_from_tx_result(value)
    IN  IF ~changes.ok THEN changes
        ELSE LET acc == PublishedObjectsLoop([package |-> None, objects |-> EmptyMap],
                                             changes.val, 1)
             IN  IF acc.package.some
                 THEN Ok([package_id |-> acc.package.val, objects |-> acc.objects])
                 ELSE Err(MissingPackageId)

\* --------------------------- transaction_response.rs: TransactionResponse

\* A faulty loop: the first Published record is kept, later ones are not.
RECURSIVE FirstPublished(_, _, _)
FirstPublished(package, changes, i) ==
    IF i > Len(changes) THEN package
    ELSE FirstPublished(IF changes[i].kind = "Published" /\ ~package.some
                        THEN Some(changes[i].package_id) ELSE package,
                        changes, i + 1)

\* The loop that keeps the package id of the last Published record.
RECURSIVE LastPublished(_, _, _)
LastPublished(package, changes, i) ==
    IF i > Len(changes) THEN package
    ELSE LastPublished(IF changes[i].kind = "Published"
                       THEN Some(changes[i].package_id) ELSE package,
                       changes, i + 1)

\* A faulty try_from: the object changes are kept only beside effects.
TransactionResponse_try_from_Mutant(value) ==
    LET effects == IF value.effects.some THEN Some(value.effects.val) ELSE None
        object_changes == IF value.effects.some THEN value.object_changes ELSE Some(<<>>)
        package == IF object_changes.some
                   THEN LastPublished(None, object_changes.val, 1)
                   ELSE None
    IN  Ok([package_id |-> package,
            object_changes |-> object_changes,
            execution_status |-> effects])

TransactionResponse_try_from(value) ==
    LET object_changes == value.object_changes
        package == IF object_changes.some
                   THEN LastPublished(None, object_changes.val, 1)
                   ELSE None
        effects == IF value.effects.some THEN Some(value.effects.val) ELSE None
    IN  Ok([package_id |-> package,
            object_changes |-> object_changes,
            execution_status |-> effects])

TransactionResponse_check_execution_status(self) ==
    IF ~self.execution_status.some THEN Ok(Unit)
    ELSE IF self.execution_status.val.status = "Failure" THEN Err(TransactionFailed)
    ELSE Ok(Unit)

TransactionResponse_object_changes(self) ==
    IF self.object_changes.some THEN Ok(self.object_changes.val)
    ELSE Err(NoObjectChanges)

TransactionResponse_package_id(self) ==
    IF self.package_id.some THEN Ok(self.package_id.val)
    ELSE Err(MissingPackageId)

\* ---------------------------------- package_objects.rs: PackageObjects

RECURSIVE PackageObjectsLoop(_, _, _)
PackageObjectsLoop(objects, changes, i) ==
    IF i > Len(changes) THEN objects
    ELSE PackageObjectsLoop(
            IF changes[i].kind = "Created"
            THEN EntryPush(objects, ObjectKey(changes[i].object_type),
                           CreatedObject(changes[i]))
            ELSE objects,
            changes, i + 1)

\* A faulty order: the package id is asked for before the object changes.
PackageObjects_try_from_PackageFirst(value) ==
    LET package_id == TransactionResponse_package_id(value)
    IN  IF ~package_id.ok THEN package_id
        ELSE LET changes == TransactionResponse_object_changes(value)
             IN  IF ~changes.ok THEN changes
                 ELSE Ok([package_id |-> package_id.val,
                          objects |-> PackageObjectsLoop(EmptyMap, changes.val, 1)])

PackageObjects_try_from(value) ==
    LET changes == TransactionResponse_object_changes(value)
    IN  IF ~changes.ok THEN changes
        ELSE LET objects == PackageObjectsLoop(EmptyMap, changes.val, 1)
                 package_id == TransactionResponse_package_id(value)
             IN  IF ~package_id.ok THEN package_id
                 ELSE Ok([package_id |-> package_id.val, objects |-> objects])

\* ------------------------------ published_response.rs: PublishedResponse

PublishedResponse_try_from(value) ==
    IF ~value.object_changes.some THEN Err(NoObjectChanges)
    ELSE LET object_changes == value.object_changes.val
             package == LastPublished(None, object_changes, 1)
         IN  IF ~value.effects.some THEN Err(NoEffects)
             ELSE IF ~package.some THEN Err(MissingPackageId)
             ELSE Ok([package_id |-> package.val,
                      object_changes |-> object_changes,
                      execution_status |-> value.effects.val,
                      response |-> [value EXCEPT !.object_changes = None]])

PublishedResponse_check_execution_status(self) ==
    IF self.execution_status.status = "Failure" THEN Err(TransactionFailed)
    ELSE Ok(Unit)

\* ======================================================== coin selection

\* The two concurrent calls of get_coin_amount.
Calls == {1, 2}

\* The definition a call runs: SignedTransactionApi::get_coin_amount of
\* signed_transaction_api/mod.rs ("api") or get_coin_amount of lib.rs ("lib").
Impls == {"api", "lib"}

\* The coin type every call asks for.
coin_type == "T"

\* ObjectID::ZERO; the ledger's coins have the ids 1, 2, ...
ObjectID_ZERO == 0

\* The gas budget lib.rs passes to split_coin.
LibGasBudget == 1000

\* GasInfo.budget, the caller's value (its default).
GasBudget == 1000000000

InsufficientBalance == "No Coin with balance >= amount found for address"

SplitResultNotFound == "Failed to find coin from split result"

ListFailed == "get_coins failed"

BuildFailed == "split_coin failed"

SigningFailed == "sign_secure failed"

SubmissionFailed == "execute_transaction_block failed"

ReadFailed == "read_object failed"

AssertionFailed == "panic: assertion failed: confirmed_local_execution"

UnwrapNone == "panic: called Option::unwrap() on a None value"

\* The StructTag of Coin<t>.
CoinTag(t) == [address |-> "0x2", module |-> "coin", name |-> "Coin", type_params |-> <<t>>]

\* Coin::is_coin
is_coin(object_type) ==
    object_type.address = "0x2" /\ object_type.module = "coin" /\ object_type.name = "Coin"

\* u64 subtraction; the code evaluates it only under balance > amount.
U64Sub(a, b) == IF a >= b THEN a - b ELSE -1

VARIABLES
    ledger,        \* the sender's coins of coin_type: id -> [balance, live]
    chain,         \* the transactions the ledger executed, in order
    call,          \* each call's locals and position
    tx_response,   \* the response handed to the response functions
    outcome        \* what the response function applied last returned

vars == <<ledger, chain, call, tx_response, outcome>>

\* ------------------------------------------------------------ the ledger

\* get_coins: the live coins, in the ledger's order.
Listing(l) ==
    LET live == SelectSeq([i \in 1..Len(l) |-> [coin_object_id |-> i,
                                                 balance |-> l[i].balance,
                                                 live |-> l[i].live]],
                          LAMBDA c : c.live)
    IN  [i \in 1..Len(live) |-> [coin_object_id |-> live[i].coin_object_id,
                                 balance |-> live[i].balance]]

\* A split the ledger executes with success consumes its input coin and
\* creates one coin per amount.
LedgerSplit(l, tx) ==
    [l EXCEPT ![tx.coin].live = FALSE]
        \o [i \in 1..Len(tx.amounts) |-> [balance |-> tx.amounts[i], live |-> TRUE]]

\* The ledger executes a transaction only while its input coin is live.
LedgerAccepts(l, tx) == tx.coin \in 1..Len(l) /\ l[tx.coin].live

\* The object changes of an executed split, as the ledger reports them: the
\* gas coin mutated, then the created coins in either order.
SplitChanges(l, tx, status, swap) ==
    IF status = "Failure" THEN << Mutated >>
    ELSE LET c1 == Created(Len(l) + 1, CoinTag(coin_type))
             c2 == Created(Len(l) + 2, CoinTag(coin_type))
         IN  IF swap THEN << Mutated, c2, c1 >> ELSE << Mutated, c1, c2 >>

\* ------------------------------------------------- get_coin_amount: scan

\* A faulty scan: an equal balance does not end the loop.
RECURSIVE ScanNoBreakFrom(_, _, _, _)
ScanNoBreakFrom(coins, amount, i, st) ==
    IF i > Len(coins) THEN st
    ELSE IF coins[i].balance = amount
    THEN ScanNoBreakFrom(coins, amount, i + 1, [st EXCEPT !.equal = Some(i)])
    ELSE IF coins[i].balance > amount
    THEN ScanNoBreakFrom(coins, amount, i + 1, [st EXCEPT !.greater = Some(i)])
    ELSE ScanNoBreakFrom(coins, amount, i + 1, st)

ScanNoBreak(coins, amount) ==
    ScanNoBreakFrom(coins, amount, 1, [equal |-> None, greater |-> None])

\* A faulty scan: the first greater balance is kept, later ones are not.
RECURSIVE ScanFirstGreaterFrom(_, _, _, _)
ScanFirstGreaterFrom(coins, amount, i, st) ==
    IF i > Len(coins) THEN st
    ELSE IF coins[i].balance = amount
    THEN [st EXCEPT !.equal = Some(i)]
    ELSE IF coins[i].balance > amount /\ ~st.greater.some
    THEN ScanFirstGreaterFrom(coins, amount, i + 1, [st EXCEPT !.greater = Some(i)])
    ELSE ScanFirstGreaterFrom(coins, amount, i + 1, st)

ScanFirstGreater(coins, amount) ==
    ScanFirstGreaterFrom(coins, amount, 1, [equal |-> None, greater |-> None])

\* The for loop: an equal balance ends it, a greater one is remembered.
RECURSIVE ScanFrom(_, _, _, _)
ScanFrom(coins, amount, i, st) ==
    IF i > Len(coins) THEN st
    ELSE IF coins[i].balance = amount
    THEN [st EXCEPT !.equal = Some(i)]
    ELSE IF coins[i].balance > amount
    THEN ScanFrom(coins, amount, i + 1, [st EXCEPT !.greater = Some(i)])
    ELSE ScanFrom(coins, amount, i + 1, st)

Scan(coins, amount) ==
    ScanFrom(coins, amount, 1, [equal |-> None, greater |-> None])

\* What get_coin_amount does when neither an equal nor a greater coin exists.
NoCoin(impl) ==
    IF impl = "api" THEN Err(InsufficientBalance) ELSE Ok(ObjectID_ZERO)

\* The response options of the split.
SplitOptions(impl) ==
    IF impl = "api"
    THEN [effects |-> TRUE, object_changes |-> TRUE]
    ELSE [effects |-> TRUE, object_changes |-> FALSE]

\* Faulty arguments: the operands of the subtraction are exchanged.
SplitTxReversed(impl, primary, amount) ==
    [coin |-> primary.coin_object_id,
     amounts |-> << amount, U64Sub(amount, primary.balance) >>,
     gas_budget |-> IF impl = "api" THEN GasBudget ELSE LibGasBudget]

\* split_coin's arguments.
SplitTx(impl, primary, amount) ==
    [coin |-> primary.coin_object_id,
     amounts |-> << amount, U64Sub(primary.balance, amount) >>,
     gas_budget |-> IF impl = "api" THEN GasBudget ELSE LibGasBudget]


\* --------------------------------------------- get_coin_amount: the steps

\* A call returning r (or panicking, when r is a panic).
Return(c, r) == [c EXCEPT !.pc = "done", !.result = Some(r)]

\* get_all_coins returned the page: the scan, then the exact-match return,
\* the way into the split, or the no-coin exit.
AfterListing(c, coins) ==
    LET st == Scan(coins, c.amount)
        d  == [c EXCEPT !.coins = Some(coins), !.equal = st.equal, !.greater = st.greater]
    IN  IF st.equal.some THEN Return(d, Ok(coins[st.equal.val].coin_object_id))
        ELSE IF st.greater.some THEN [d EXCEPT !.pc = "split_coin"]
        ELSE Return(d, NoCoin(c.impl))

get_all_coins_ok(p) ==
    /\ call[p].pc = "start"
    /\ call' = [call EXCEPT ![p] = AfterListing(@, Listing(ledger))]
    /\ UNCHANGED <<ledger, chain, tx_response, outcome>>

get_all_coins_err(p) ==
    /\ call[p].pc = "start"
    /\ call' = [call EXCEPT ![p] = Return(@, Err(ListFailed))]
    /\ UNCHANGED <<ledger, chain, tx_response, outcome>>

split_coin_ok(p) ==
    /\ call[p].pc = "split_coin"
    /\ call' = [call EXCEPT ![p].pc = "sign_and_execute",
                            ![p].tx_data = Some(SplitTx(call[p].impl,
                                                        call[p].coins.val[call[p].greater.val],
                                                        call[p].amount))]
    /\ UNCHANGED <<ledger, chain, tx_response, outcome>>

split_coin_err(p) ==
    /\ call[p].pc = "split_coin"
    /\ call' = [call EXCEPT ![p] = Return(@, Err(BuildFailed))]
    /\ UNCHANGED <<ledger, chain, tx_response, outcome>>

\* A faulty order: the transaction is submitted before the signing error
\* is returned.
sign_err_submits(p) ==
    /\ call[p].pc = "sign_and_execute"
    /\ call' = [call EXCEPT ![p] =
          Return([@ EXCEPT !.submitted =
                    Append(@, [tx |-> call[p].tx_data.val,
                               options |-> SplitOptions(call[p].impl)])],
                 Err(SigningFailed))]
    /\ UNCHANGED <<ledger, chain, tx_response, outcome>>

\* sign_secure (or verify) fails: nothing is submitted.
sign_err(p) ==
    /\ call[p].pc = "sign_and_execute"
    /\ call' = [call EXCEPT ![p] = Return(@, Err(SigningFailed))]
    /\ UNCHANGED <<ledger, chain, tx_response, outcome>>

\* The transaction as execute_transaction_block is handed it.
Submission(c) == [tx |-> c.tx_data.val, options |-> SplitOptions(c.impl)]

\* A faulty handling of the error: the call stays where it submits again.
SubmitFailedRetry(c) ==
    [c EXCEPT !.submitted = Append(@, Submission(c))]

\* execute_transaction_block returned an error: `?` hands it to the caller.
SubmitFailed(c) ==
    Return([c EXCEPT !.submitted = Append(@, Submission(c))], Err(SubmissionFailed))

execute_err(p) ==
    /\ call[p].pc = "sign_and_execute"
    /\ call' = [call EXCEPT ![p] = SubmitFailed(@)]
    /\ UNCHANGED <<ledger, chain, tx_response, outcome>>

\* A faulty version without the assertion on confirmed_local_execution.
AfterResponseNoAssert(c, response) ==
    LET d == [c EXCEPT !.response = Some(response)]
    IN  IF c.impl = "lib"
        THEN Return(d, Ok(c.coins.val[c.greater.val].coin_object_id))
        ELSE IF ~response.object_changes.some
        THEN Return(d, Err(UnwrapNone))
        ELSE [d EXCEPT !.pc = "for_change", !.i = 1]

\* What follows the response of the split: the assertion on
\* confirmed_local_execution, then lib.rs returns the primary coin and
\* mod.rs unwraps the object changes and starts its loop over them.
AfterResponse(c, response) ==
    LET d == [c EXCEPT !.response = Some(response)]
    IN  IF ~(response.confirmed_local_execution.some
             /\ response.confirmed_local_execution.val)
        THEN Return(d, Err(AssertionFailed))
        ELSE IF c.impl = "lib"
        THEN Return(d, Ok(c.coins.val[c.greater.val].coin_object_id))
        ELSE IF ~response.object_changes.some
        THEN Return(d, Err(UnwrapNone))
        ELSE [d EXCEPT !.pc = "for_change", !.i = 1]

\* The response the ledger gives to a split it executed.
SplitResponse(l, tx, options, status, confirmed, swap) ==
    [confirmed_local_execution |-> confirmed,
     effects |-> IF options.effects
                 THEN Some(IF status = "Success" THEN [status |-> "Success"]
                           ELSE [status |-> "Failure", error |-> "abort"])
                 ELSE None,
     object_changes |-> IF options.object_changes
                        THEN Some(SplitChanges(l, tx, status, swap))
                        ELSE None]

\* sign_and_execute signs, submits and the ledger executes the split, with
\* success or with an on-chain failure that changes no coin.
execute_ok(p) ==
    /\ call[p].pc = "sign_and_execute"
    /\ LedgerAccepts(ledger, call[p].tx_data.val)
    /\ \E status \in {"Success", "Failure"},
          confirmed \in {Some(TRUE), Some(FALSE), None},
          swap \in BOOLEAN :
          LET tx == call[p].tx_data.val
              sub == Submission(call[p])
          IN  /\ ledger' = IF status = "Success" THEN LedgerSplit(ledger, tx) ELSE ledger
              /\ chain' = Append(chain, [by |-> p, coin |-> tx.coin, amounts |-> tx.amounts,
                                         status |-> status])
              /\ call' = [call EXCEPT ![p] =
                    AfterResponse([@ EXCEPT !.submitted = Append(@, sub)],
                                  SplitResponse(ledger, tx, sub.options, status,
                                                confirmed, swap))]
    /\ UNCHANGED <<tx_response, outcome>>

\* Whether the loop of mod.rs reads the object of this change.
IsRequestedCoin(change) ==
    /\ change.kind = "Created"
    /\ is_coin(change.object_type)
    /\ change.object_type.type_params[1] = coin_type

\* One iteration of the loop over the object changes of mod.rs, with its
\* read_object, and the bail! after the loop.
for_change(p) ==
    /\ call[p].pc = "for_change"
    /\ LET c == call[p]
           changes == c.response.val.object_changes.val
       IN  call' = [call EXCEPT ![p] =
              IF c.i > Len(changes) THEN Return(c, Err(SplitResultNotFound))
              ELSE IF ~IsRequestedCoin(changes[c.i]) THEN [c EXCEPT !.i = c.i + 1]
              ELSE IF ~ledger[changes[c.i].object_id].live THEN Return(c, Err(ReadFailed))
              ELSE IF ledger[changes[c.i].object_id].balance = c.amount
              THEN Return(c, Ok(changes[c.i].object_id))
              ELSE [c EXCEPT !.i = c.i + 1]]
    /\ UNCHANGED <<ledger, chain, tx_response, outcome>>

read_object_err(p) ==
    /\ call[p].pc = "for_change"
    /\ LET c == call[p]
           changes == c.response.val.object_changes.val
       IN  /\ c.i <= Len(changes)
           /\ IsRequestedCoin(changes[c.i])
           /\ call' = [call EXCEPT ![p] = Return(c, Err(ReadFailed))]
    /\ UNCHANGED <<ledger, chain, tx_response, outcome>>

\* ------------------------------------------------------ the specification

NewCall(impl, amount) ==
    [pc |-> "start", impl |-> impl, amount |-> amount, coins |-> None,
     equal |-> None, greater |-> None, tx_data |-> None, submitted |-> <<>>,
     response |-> None, i |-> 0, result |-> None]

NoOutcome == [op |-> "none", val |-> Ok(Unit)]

NoResponse ==
    [effects |-> None, object_changes |-> None, confirmed_local_execution |-> None]

Init ==
    /\ ledger \in UNION { [1..n -> { [balance |-> b, live |-> TRUE] : b \in 0..MaxBalance }] :
                            n \in 0..MaxCoins }
    /\ chain = <<>>
    /\ call \in [Calls -> { NewCall(impl, amount) : impl \in Impls, amount \in 0..MaxAmount }]
    /\ tx_response = NoResponse
    /\ outcome = NoOutcome

Next ==
    \E p \in Calls :
        \/ get_all_coins_ok(p)
        \/ get_all_coins_err(p)
        \/ split_coin_ok(p)
        \/ split_coin_err(p)
        \/ sign_err(p)
        \/ execute_err(p)
        \/ execute_ok(p)
        \/ for_change(p)
        \/ read_object_err(p)

Spec == Init /\ [][Next]_vars

\* ================================================ response interpretation

\* Each action applies one function of the response API to the response and
\* records what it returned.  A method of TransactionResponse or of
\* PublishedResponse is applied to what try_from makes of the response, and
\* try_from's error is the outcome when it fails.

check_execution_status(response) ==
    LET self == TransactionResponse_try_from(response)
    IN  IF self.ok THEN TransactionResponse_check_execution_status(self.val) ELSE self

object_changes(response) ==
    LET self == TransactionResponse_try_from(response)
    IN  IF self.ok THEN TransactionResponse_object_changes(self.val) ELSE self

package_id(response) ==
    LET self == TransactionResponse_try_from(response)
    IN  IF self.ok THEN TransactionResponse_package_id(self.val) ELSE self

package_objects(response) ==
    LET self == TransactionResponse_try_from(response)
    IN  IF self.ok THEN PackageObjects_try_from(self.val) ELSE self

published_check_execution_status(response) ==
    LET self == PublishedResponse_try_from(response)
    IN  IF self.ok THEN PublishedResponse_check_execution_status(self.val) ELSE self

apply_ensure_transaction_success ==
    /\ outcome' = [op |-> "ensure_transaction_success",
                   val |-> ensure_transaction_success(tx_response)]
    /\ UNCHANGED <<ledger, chain, call, tx_response>>

apply_check_execution_status ==
    /\ outcome' = [op |-> "TransactionResponse::check_execution_status",
                   val |-> check_execution_status(tx_response)]
    /\ UNCHANGED <<ledger, chain, call, tx_response>>

apply_object_changes ==
    /\ outcome' = [op |-> "TransactionResponse::object_changes",
                   val |-> object_changes(tx_response)]
    /\ UNCHANGED <<ledger, chain, call, tx_response>>

apply_package_id ==
    /\ outcome' = [op |-> "TransactionResponse::package_id",
                   val |-> package_id(tx_response)]
    /\ UNCHANGED <<ledger, chain, call, tx_response>>

apply_object_changes_from_tx_result ==
    /\ outcome' = [op |-> "object_changes_from_tx_result",
                   val |-> object_changes_from_tx_result(tx_response)]
    /\ UNCHANGED <<ledger, chain, call, tx_response>>

apply_PublishedObjects ==
    /\ outcome' = [op |-> "PublishedObjects::try_from",
                   val |-> PublishedObjects_try_from(tx_response)]
    /\ UNCHANGED <<ledger, chain, call, tx_response>>

apply_PublishedObjects_lib ==
    /\ outcome' = [op |-> "lib::PublishedObjects::try_from",
                   val |-> PublishedObjects_try_from_lib(tx_response)]
    /\ UNCHANGED <<ledger, chain, call, tx_response>>

apply_PackageObjects ==
    /\ outcome' = [op |-> "PackageObjects::try_from",
                   val |-> package_objects(tx_response)]
    /\ UNCHANGED <<ledger, chain, call, tx_response>>

apply_PublishedResponse ==
    /\ outcome' = [op |-> "PublishedResponse::try_from",
                   val |-> PublishedResponse_try_from(tx_response)]
    /\ UNCHANGED <<ledger, chain, call, tx_response>>

apply_PublishedResponse_check ==
    /\ outcome' = [op |-> "PublishedResponse::check_execution_status",
                   val |-> published_check_execution_status(tx_response)]
    /\ UNCHANGED <<ledger, chain, call, tx_response>>

InitResponse ==
    /\ ledger = <<>>
    /\ chain = <<>>
    /\ call = [p \in Calls |-> Return(NewCall("api", 0), Err(ListFailed))]
    /\ tx_response \in Responses
    /\ outcome = NoOutcome

NextResponse ==
    \/ apply_ensure_transaction_success
    \/ apply_check_execution_status
    \/ apply_object_changes
    \/ apply_package_id
    \/ apply_object_changes_from_tx_result
    \/ apply_PublishedObjects
    \/ apply_PublishedObjects_lib
    \/ apply_PackageObjects
    \/ apply_PublishedResponse
    \/ apply_PublishedResponse_check

SpecResponse == InitResponse /\ [][NextResponse]_vars

\* ================================================================ claims

\* ------------------------------------------------------------------- C1

HasExact(coins, amount) == \E i \in 1..Len(coins) : coins[i].balance = amount

FirstExact(coins, amount) ==
    CHOOSE i \in 1..Len(coins) :
        /\ coins[i].balance = amount
        /\ \A j \in 1..(i - 1) : coins[j].balance # amount

\* C1: when the listed coins hold a coin whose balance equals the amount,
\* the call has returned the id of the first such coin in list order and has
\* built and submitted no transaction, whatever greater coins precede it.
C1_ExactMatchReturned ==
    \A p \in Calls :
        (call[p].coins.some /\ HasExact(call[p].coins.val, call[p].amount))
        => LET coins == call[p].coins.val
           IN  /\ call[p].pc = "done"
               /\ call[p].result
                    = Some(Ok(coins[FirstExact(coins, call[p].amount)].coin_object_id))
               /\ call[p].tx_data = None
               /\ call[p].submitted = <<>>
               /\ \A k \in 1..Len(chain) : chain[k].by # p

\* A call returned the exact match listed after a greater coin.
C1_Witness ==
    \E p \in Calls :
        /\ call[p].coins.some
        /\ \E i, j \in 1..Len(call[p].coins.val) :
              /\ i < j
              /\ call[p].coins.val[i].balance > call[p].amount
              /\ call[p].coins.val[j].balance = call[p].amount
              /\ call[p].result = Some(Ok(call[p].coins.val[j].coin_object_id))

\* ------------------------------------------------------------------- C2

\* The call took the split branch: no listed coin equals the amount and one
\* is greater.
SplitBranch(c) ==
    /\ c.coins.some
    /\ ~HasExact(c.coins.val, c.amount)
    /\ \E i \in 1..Len(c.coins.val) : c.coins.val[i].balance > c.amount

\* The balance of the live coin with this id on the ledger l, -1 if none.
OnLedgerBalance(l, id) ==
    IF id \in 1..Len(l) /\ l[id].live THEN l[id].balance ELSE -1

\* C2: a call in the split branch never submits more than once, and when it
\* returns a coin it has submitted exactly one split and the coin it returns
\* has, on the ledger at that moment, a balance equal to the amount.
C2_SplitReturnsAmountCoin ==
    [][\A p \in Calls :
          /\ SplitBranch(call'[p]) => Len(call'[p].submitted) <= 1
          /\ (/\ call[p].pc # "done"
              /\ call'[p].pc = "done"
              /\ SplitBranch(call'[p])
              /\ call'[p].result.val.ok)
             => /\ Len(call'[p].submitted) = 1
                /\ OnLedgerBalance(ledger', call'[p].result.val.val) = call'[p].amount]_vars

\* ------------------------------------------------------------------- C3

\* C3: when every listed coin is below the amount (the empty list included),
\* the call has returned the insufficient-balance error and submitted nothing.
C3_InsufficientBalance ==
    \A p \in Calls :
        (/\ call[p].coins.some
         /\ \A i \in 1..Len(call[p].coins.val) :
                call[p].coins.val[i].balance < call[p].amount)
        => /\ call[p].pc = "done"
           /\ call[p].result = Some(Err(InsufficientBalance))
           /\ call[p].submitted = <<>>

\* ------------------------------------------------------------------- C4

\* The executed transactions of call p on this coin, with this status.
Executed(p, coin, status) ==
    { k \in 1..Len(chain) :
        chain[k].by = p /\ chain[k].coin = coin /\ chain[k].status = status }

\* C4: when two calls have both submitted a split of the same coin, each has
\* submitted once, the ledger has split the coin at most once, and once the
\* ledger has split it for one call, the other call (unless the ledger
\* executed its split before, with an on-chain failure) has had its
\* submission refused and has returned that failure.
C4_SecondSplitFails ==
    \A p, q \in Calls :
        (/\ p # q
         /\ call[p].submitted # <<>>
         /\ call[q].submitted # <<>>
         /\ call[p].tx_data.val.coin = call[q].tx_data.val.coin)
        => LET coin == call[p].tx_data.val.coin
           IN  /\ Len(call[p].submitted) + Len(call[q].submitted) = 2
               /\ Cardinality(Executed(p, coin, "Success")
                                \cup Executed(q, coin, "Success")) <= 1
               /\ (Executed(p, coin, "Success") # {} /\ Executed(q, coin, "Failure") = {})
                  => /\ call[q].pc = "done"
                     /\ call[q].result = Some(Err(SubmissionFailed))
                     /\ call[q].response = None
                     /\ ~ledger[coin].live

\* Both calls of mod.rs listed the coin before either submitted, the ledger
\* split it for call 1, and call 2 returned the submission failure.
C4_Witness ==
    /\ call[1].impl = "api" /\ call[2].impl = "api"
    /\ call[1].submitted # <<>> /\ call[2].submitted # <<>>
    /\ call[1].tx_data.val.coin = call[2].tx_data.val.coin
    /\ Executed(1, call[1].tx_data.val.coin, "Success") # {}
    /\ call[2].result = Some(Err(SubmissionFailed))

\* ------------------------------------------------------------------- C5

\* C5: every split a call submitted asked for the object changes.
C5_SplitRequestsObjectChanges ==
    \A p \in Calls :
        \A k \in 1..Len(call[p].submitted) :
            call[p].submitted[k].options.object_changes

\* ------------------------------------------------------------------- C6

\* Whether the response lists a created coin of the requested type whose
\* value is the amount (a coin keeps the value it was created with).
ListsCreatedAmountCoin(c) ==
    /\ c.response.val.object_changes.some
    /\ \E k \in 1..Len(c.response.val.object_changes.val) :
          LET change == c.response.val.object_changes.val[k]
          IN  /\ change.kind = "Created"
              /\ change.object_type = CoinTag(coin_type)
              /\ ledger[change.object_id].balance = c.amount

\* C6: a call in the split branch that got a confirmed response listing no
\* created coin of the requested type and value ends with the
\* split-result-not-found error, never with a coin.
C6_SplitResultNotFound ==
    \A p \in Calls :
        (/\ call[p].pc = "done"
         /\ SplitBranch(call[p])
         /\ call[p].response.some
         /\ call[p].response.val.confirmed_local_execution = Some(TRUE)
         /\ ~ListsCreatedAmountCoin(call[p]))
        => call[p].result = Some(Err(SplitResultNotFound))

\* ------------------------------------------------------------------- C7

\* C7: on a response without effects every execution-status check returns
\* the missing-effects error.
C7_MissingEffects ==
    (/\ outcome.op \in {"ensure_transaction_success",
                        "TransactionResponse::check_execution_status"}
     /\ ~tx_response.effects.some)
    => outcome.val = Err(NoEffects)

\* ------------------------------------------------------------------- C8

\* C8: object_changes returns the no-object-changes error exactly when the
\* response's field is not populated, whatever its effects, and otherwise
\* the field's list, unchanged.
C8_ObjectChanges ==
    outcome.op \in {"TransactionResponse::object_changes", "object_changes_from_tx_result"}
    => IF tx_response.object_changes.some
       THEN outcome.val = Ok(tx_response.object_changes.val)
       ELSE outcome.val = Err(NoObjectChanges)

\* TransactionResponse::object_changes failed on a response whose effects
\* report success.
C8_Witness ==
    /\ outcome.op = "TransactionResponse::object_changes"
    /\ ~tx_response.object_changes.some
    /\ tx_response.effects = Some([status |-> "Success"])
    /\ outcome.val = Err(NoObjectChanges)

\* ------------------------------------------------------------------- C9

PublishedCount(changes) ==
    Cardinality({ k \in 1..Len(changes) : changes[k].kind = "Published" })

CreatedCount(changes) ==
    Cardinality({ k \in 1..Len(changes) : changes[k].kind = "Created" })

\* C9: on a populated list, published_objects (and package_id) fails with
\* the missing-package-id error when the list holds no Published record,
\* whatever it creates, and succeeds when it holds one or more.
C9_MissingPackageId ==
    (/\ outcome.op \in {"PublishedObjects::try_from", "lib::PublishedObjects::try_from",
                        "PackageObjects::try_from", "TransactionResponse::package_id"}
     /\ tx_response.object_changes.some)
    => IF PublishedCount(tx_response.object_changes.val) = 0
       THEN outcome.val = Err(MissingPackageId)
       ELSE outcome.val.ok

\* PublishedObjects::try_from failed on a list with Created records only.
C9_Witness ==
    /\ outcome.op = "PublishedObjects::try_from"
    /\ tx_response.object_changes.some
    /\ PublishedCount(tx_response.object_changes.val) = 0
    /\ CreatedCount(tx_response.object_changes.val) >= 2
    /\ outcome.val = Err(MissingPackageId)

\* ------------------------------------------------------------------ C10

\* The key "<module>::<type_name>" of each type of StructTags, written out.
ExpectedKey(object_type) ==
    CASE object_type.module = "m1" /\ object_type.name = "A" -> "m1::A"
      [] object_type.module = "m2" /\ object_type.name = "B" -> "m2::B"

\* The Created records under key k, in scan order.
CreatedUnder(changes, k) ==
    LET sel == SelectSeq(changes,
                         LAMBDA c : c.kind = "Created" /\ ExpectedKey(c.object_type) = k)
    IN  [i \in 1..Len(sel) |-> [object_id |-> sel[i].object_id,
                                object_type |-> sel[i].object_type]]

\* C10: when published_objects succeeds, the keys of its mapping are the
\* keys of the Created records, and each key's list is the Created records
\* of that key in scan order: every Created record once, no empty list,
\* nothing from the other records.
C10_CreatedByType ==
    (/\ outcome.op \in {"PublishedObjects::try_from", "lib::PublishedObjects::try_from",
                        "PackageObjects::try_from"}
     /\ outcome.val.ok)
    => LET changes == tx_response.object_changes.val
           objects == outcome.val.val.objects
       IN  /\ DOMAIN objects
                = { ExpectedKey(changes[k].object_type) :
                      k \in { j \in 1..Len(changes) : changes[j].kind = "Created" } }
           /\ \A k \in DOMAIN objects :
                 /\ objects[k] = CreatedUnder(changes, k)
                 /\ Len(objects[k]) >= 1

\* published_objects grouped two different Created records under one key,
\* with a third record of another kind in the list.
C10_Witness ==
    /\ outcome.op = "PublishedObjects::try_from"
    /\ outcome.val.ok
    /\ \E k \in DOMAIN outcome.val.val.objects :
          /\ Len(outcome.val.val.objects[k]) = 2
          /\ outcome.val.val.objects[k][1] # outcome.val.val.objects[k][2]

\* ------------------------------------------------------------------ C11

\* C11: a call of sign_and_execute submits at most once, and not when the
\* signing failed: a call that returned the signing error submitted nothing
\* and the ledger executed nothing for it, and a call that returned the
\* submission failure submitted exactly once and has ended.
C11_SubmitAtMostOnce ==
    \A p \in Calls :
        /\ Len(call[p].submitted) <= 1
        /\ Cardinality({ k \in 1..Len(chain) : chain[k].by = p }) <= Len(call[p].submitted)
        /\ call[p].result = Some(Err(SigningFailed))
           => /\ call[p].submitted = <<>>
              /\ call[p].response = None
        /\ call[p].result = Some(Err(SubmissionFailed))
           => /\ Len(call[p].submitted) = 1
              /\ call[p].pc = "done"
              /\ call[p].response = None

\* One call returned the signing error, the other the submission failure
\* of the one transaction it submitted.
C11_Witness ==
    /\ call[1].result = Some(Err(SigningFailed))
    /\ call[1].submitted = <<>>
    /\ call[2].result = Some(Err(SubmissionFailed))
    /\ Len(call[2].submitted) = 1

\* ------------------------------------------------------------------ C12

\* The indices of the listed coins whose balance is above the amount.
GreaterIndices(coins, amount) == { i \in 1..Len(coins) : coins[i].balance > amount }

\* The highest index of a non-empty set of indices.
Highest(S) == CHOOSE i \in S : \A j \in S : j <= i

\* C12: in the split branch the coin the call builds its split on (and
\* submits) is the listed coin at the highest index among those with a
\* balance above the amount.
C12_LastGreaterWins ==
    \A p \in Calls :
        (SplitBranch(call[p]) /\ call[p].tx_data.some)
        => LET coins == call[p].coins.val
               last == Highest(GreaterIndices(coins, call[p].amount))
           IN  /\ call[p].tx_data.val.coin = coins[last].coin_object_id
               /\ \A k \in 1..Len(call[p].submitted) :
                     call[p].submitted[k].tx.coin = coins[last].coin_object_id

\* A call submitted the split of the last of three greater coins, which is
\* not the first of them, not the one of the smallest balance and not the one
\* of the largest.
C12_Witness ==
    \E p \in Calls :
        /\ SplitBranch(call[p])
        /\ call[p].submitted # <<>>
        /\ LET coins == call[p].coins.val
               last == Len(coins)
           IN  /\ call[p].submitted[1].tx.coin = coins[last].coin_object_id
               /\ \E i, j \in 1..(last - 1) :
                     /\ call[p].amount < coins[i].balance
                     /\ coins[i].balance < coins[last].balance
                     /\ coins[last].balance < coins[j].balance

\* ------------------------------------------------------------------ C13

\* C13: in the split branch a call is in (or past) its loop over the object
\* changes, or has returned a coin, only with a response whose confirmed
\* flag is present and true; with a response whose flag is absent or false
\* it has ended without a coin and without entering the loop.
C13_OnlyConfirmedScanned ==
    \A p \in Calls :
        SplitBranch(call[p])
        => /\ (\/ call[p].pc = "for_change"
               \/ call[p].i > 0
               \/ (call[p].pc = "done" /\ call[p].result.val.ok))
              => /\ call[p].response.some
                 /\ call[p].response.val.confirmed_local_execution = Some(TRUE)
           /\ (/\ call[p].response.some
               /\ call[p].response.val.confirmed_local_execution # Some(TRUE))
              => /\ call[p].pc = "done"
                 /\ call[p].result = Some(Err(AssertionFailed))
                 /\ call[p].i = 0

\* The ledger split the coin for one call of each definition; one response
\* had no confirmed flag and the other a false one, and neither call
\* returned a coin.
C13_Witness ==
    \E p, q \in Calls :
        /\ call[p].impl = "api" /\ call[q].impl = "lib"
        /\ call[p].response.some /\ call[q].response.some
        /\ call[p].response.val.confirmed_local_execution = None
        /\ call[p].response.val.effects = Some([status |-> "Success"])
        /\ call[q].response.val.confirmed_local_execution = Some(FALSE)
        /\ call[p].result = Some(Err(AssertionFailed))
        /\ call[q].result = Some(Err(AssertionFailed))

\* ------------------------------------------------------------------ C14

\* The package id of the Published record at the highest index.
LastPublishedId(changes) ==
    changes[Highest({ k \in 1..Len(changes) : changes[k].kind = "Published" })].package_id

\* What a successful outcome reports as the package id.
ReportedPackageId(o) ==
    IF o.op = "TransactionResponse::package_id" THEN o.val.val ELSE o.val.val.package_id

\* C14: on a list with more than one Published record, published_objects,
\* PackageObjects, TransactionResponse::package_id and PublishedResponse
\* report the package id of the last Published record, and none of them
\* fails for it (PublishedResponse fails only for missing effects).
C14_LastPublishedWins ==
    (/\ outcome.op \in {"PublishedObjects::try_from", "lib::PublishedObjects::try_from",
                        "PackageObjects::try_from", "TransactionResponse::package_id",
                        "PublishedResponse::try_from"}
     /\ tx_response.object_changes.some
     /\ PublishedCount(tx_response.object_changes.val) > 1)
    => /\ outcome.val.ok
          <=> (outcome.op = "PublishedResponse::try_from" => tx_response.effects.some)
       /\ outcome.val.ok
          => ReportedPackageId(outcome) = LastPublishedId(tx_response.object_changes.val)

\* TransactionResponse::package_id reported P2 on a list that publishes P1
\* and then P2.
C14_Witness ==
    /\ outcome.op = "TransactionResponse::package_id"
    /\ tx_response.object_changes.some
    /\ \E i, j \in 1..Len(tx_response.object_changes.val) :
          /\ i < j
          /\ tx_response.object_changes.val[i] = Published("P1")
          /\ tx_response.object_changes.val[j] = Published("P2")
    /\ outcome.val = Ok("P2")

\* ------------------------------------------------------------------ C15

\* C15: the split a call builds, and the one it submits, names the selected
\* greater coin and the amounts [amount, balance - amount] of its listed
\* balance: the second amount is at least 1 (the subtraction did not go
\* below zero) and the two add up to the balance.
C15_SplitAmounts ==
    \A p \in Calls :
        call[p].tx_data.some
        => LET primary == call[p].coins.val[call[p].greater.val]
               tx == call[p].tx_data.val
           IN  /\ primary.balance > call[p].amount
               /\ tx.coin = primary.coin_object_id
               /\ tx.amounts = << call[p].amount, primary.balance - call[p].amount >>
               /\ tx.amounts[2] >= 1
               /\ tx.amounts[2] <= primary.balance
               /\ tx.amounts[1] + tx.amounts[2] = primary.balance
               /\ \A k \in 1..Len(call[p].submitted) : call[p].submitted[k].tx = tx

\* A call submitted the split of a coin of balance 3 into 2 and 1, and the
\* ledger executed it.
C15_Witness ==
    \E p \in Calls :
        /\ call[p].amount = 2
        /\ call[p].submitted # <<>>
        /\ call[p].submitted[1].tx.amounts = << 2, 1 >>
        /\ \E k \in 1..Len(chain) :
              chain[k].by = p /\ chain[k].amounts = << 2, 1 >> /\ chain[k].status = "Success"

\* ------------------------------------------------------------------ C16

\* C16: what the composed path (TransactionResponse::try_from, then
\* PackageObjects::try_from with object_changes and package_id) returns on a
\* response is what the direct path (PublishedObjects::try_from) returns on
\* it: the same error, the missing object changes before the missing
\* package id, or the same package id and the same mapping.
C16_ComposedEqualsDirect ==
    outcome.op = "PackageObjects::try_from"
    => LET direct == PublishedObjects_try_from(tx_response)
       IN  /\ outcome.val.ok = direct.ok
           /\ ~direct.ok => outcome.val.err = direct.err
           /\ direct.ok
              => /\ outcome.val.val.package_id = direct.val.package_id
                 /\ DOMAIN outcome.val.val.objects = DOMAIN direct.val.objects
                 /\ \A k \in DOMAIN direct.val.objects :
                       outcome.val.val.objects[k] = direct.val.objects[k]
           /\ ~tx_response.object_changes.some => outcome.val = Err(NoObjectChanges)

\* The composed path returned a package id and a key with two records on a
\* response with no effects.
C16_Witness ==
    /\ outcome.op = "PackageObjects::try_from"
    /\ outcome.val.ok
    /\ ~tx_response.effects.some
    /\ \E k \in DOMAIN outcome.val.val.objects : Len(outcome.val.val.objects[k]) = 2

====
